---- MODULE Spec2Model ----
(***************************************************************************)
(* State-machine model of maestroflame/driver_pinn.py: the PINN training   *)
(* driver (run guard, log tee, train/test split, epoch loop with the       *)
(* per-channel differentiator, metric histories, persistence).             *)
(*                                                                         *)
(* The network, the loss functions and the data are external: a loss value *)
(* is a fixed integer function of the loss function's name and the forward *)
(* pass it is computed from (loop, epoch, batch, parameter version), and a *)
(* quotient is kept as the pair (numerator, divisor), so that a divisor of *)
(* 0 is representable.                                                     *)
(***************************************************************************)
EXTENDS Integers, Sequences, FiniteSets

\* ------------------------------------------------------------ bounds
MaxN == 20
LargeN == 170
MaxNnuc == 2
MaxExternalSaves == 1

\* ------------------------------------------------- program constants
\* percent_test = 10
PercentTest == 10
BATCH_SIZE == 16
DebugEpochs == 3
FullEpochs == 100
\* SAVE_MODEL is set to True in the source and no operation changes it.
SAVE_MODEL == TRUE

VARIABLES
    pc,                     \* position of the script
    DEBUG_MODE, DO_PLOTTING, DO_HYPER_OPTIMIZATION,
    dirExists,              \* os.path.isdir(output_dir)
    files,                  \* entries of output_dir: name -> [exists, data]
    written,                \* name -> number of create/write/rename operations of this run
    extSaves,               \* persistence runs of other processes on the same path
    console,                \* lines on the terminal
    logger,                 \* "unopened" | "open" | "closed"
    percent_test, N, nnuc, Num_test, Num_train, num_epochs, optimizer,
    params,                 \* version of the model parameters (one per optimizer step)
    paramGrad,              \* contributions accumulated in the parameters' .grad
    epoch, it, batch_idx,   \* epoch index, batches yielded by the current loop, enumerate index
    prediction, data_grad, dXdt, n, backwards, loss,
    losses, plotting_losses, diff_losses, component_loss, d_component_loss,
    cost_per_epoc, component_losses_test, component_losses_train,
    d_component_losses_test, d_component_losses_train, cost_per_epoc_test,
    different_loss_metrics

cfgVars == <<DEBUG_MODE, DO_PLOTTING, DO_HYPER_OPTIMIZATION>>
fsVars == <<dirExists, files, written, extSaves>>
logVars == <<console, logger>>
dataVars == <<percent_test, N, nnuc, Num_test, Num_train, num_epochs, optimizer>>
modelVars == <<params, paramGrad>>
iterVars == <<epoch, it, batch_idx>>
batchVars == <<prediction, data_grad, dXdt, n, backwards, loss>>
accVars == <<losses, plotting_losses, diff_losses, component_loss, d_component_loss>>
histVars == <<cost_per_epoc, component_losses_test, component_losses_train,
              d_component_losses_test, d_component_losses_train, cost_per_epoc_test,
              different_loss_metrics>>
vars == <<pc, cfgVars, fsVars, logVars, dataVars, modelVars, iterVars, batchVars,
          accVars, histVars>>

\* -------------------------------------------------------- file system
log_file == "log.txt"
file_name == "my_model_pinn.pt"
backup_name == "my_model_pinn.pt.backup"
MetricFiles == {"cost_per_epoch.txt", "component_losses_test.txt",
                "component_losses_train.txt", "d_component_losses_test.txt",
                "d_component_losses_train.txt"}
FileNames == {log_file, file_name, backup_name, "other"} \cup MetricFiles

NoFile == [exists |-> FALSE, data |-> <<>>]
File(d) == [exists |-> TRUE, data |-> d]
EmptyDir == [f \in FileNames |-> NoFile]
Listdir(fs) == {f \in FileNames : fs[f].exists}

\* What a previous run, or anything else, may have left in output_dir.
OldWeights == [owner |-> "previous", version |-> 0]
LeftOver(f) ==
    IF f = file_name THEN File(<<OldWeights>>)
    ELSE IF f = log_file THEN File(<<"previous run">>)
    ELSE File(<<>>)
InitialDirs ==
    {EmptyDir} \cup {[EmptyDir EXCEPT ![f] = LeftOver(f)] : f \in {"other", log_file, file_name}}

Touch(w, f) == [w EXCEPT ![f] = @ + 1]

\* ------------------------------------------------------------- Logger
\* Variant: the message goes to the terminal only.
LoggerWriteTerminalOnly(fs, line) == fs

\* Variant: optimizer.zero_grad() left out.
ZeroGradNoop(pg) == pg

\* Logger.write: the message goes to the terminal and to the log file.
LoggerWrite(fs, line) == [fs EXCEPT ![log_file] = File(@.data \o <<line>>)]

RECURSIVE LoggerWriteAll(_, _)
LoggerWriteAll(fs, lines) ==
    IF lines = <<>> THEN fs
    ELSE LoggerWriteAll(LoggerWrite(fs, Head(lines)), Tail(lines))

\* print() after sys.stdout was replaced by the Logger.
PrintLines(lines) ==
    /\ console' = console \o lines
    /\ files' = LoggerWriteAll(files, lines)
    /\ written' = [written EXCEPT ![log_file] = @ + Len(lines)]


\* ------------------------------------------------------- pure helpers
\* nnuc = int(output_data.shape[1]/2 - 1)
NnucOf(width) == (width - 2) \div 2
\* The output widths of the data sets considered: 2*(nnuc+1) columns.
OutputWidths == {2 * (k + 1) : k \in 1..MaxNnuc}
\* len(react_data) of the data sets considered.
DatasetSizes == (1..MaxN) \cup {LargeN}

\* Variant: the test share rounded to the nearest integer instead of truncated.
NumTestRounded(size, percent) == (size * percent + 50) \div 100

\* Num_test = int(N*percent_test/100)
NumTestOf(size, percent) == (size * percent) \div 100
\* Num_train = N - Num_test
NumTrainOf(size, percent) == size - NumTestOf(size, percent)
\* Batches a DataLoader(batch_size=16) yields over a subset of the given length.
NumBatches(len) == (len + BATCH_SIZE - 1) \div BATCH_SIZE
\* Variant: the two branches of the DEBUG_MODE test exchanged.
NumEpochsSwapped(debug) == IF debug THEN FullEpochs ELSE DebugEpochs

\* num_epochs
NumEpochsOf(debug) == IF debug THEN DebugEpochs ELSE FullEpochs

OPTIMIZERS == {"Adam", "RMSprop", "SGD"}
\* What hyper_results['optimizer'] may hold: do_h_opt is an external collaborator.
HyperOptimizerNames == OPTIMIZERS \cup {"unsupported"}

NoPrediction == [loop |-> "none", epoch |-> -1, batch |-> -1, params |-> -1]
NoGrad == [none |-> TRUE, g |-> {}, loss |-> FALSE]
\* The value a loss function returns for a forward pass: test passes give values
\* of 100 and more, training passes values below 30; the value depends on the
\* function, on the parameters the pass used and on the batch.
LossValue(f, pred) ==
    (CASE f = "criterion" -> 1
       [] f = "array_loss" -> 2
       [] f = "criterion_plotting" -> 3
       [] f = "component_loss_f" -> 4
       [] f = "component_loss_f_L1" -> 5)
    + 10 * ((pred.params + 2 * pred.batch) % 3)
    + (IF pred.loop = "test" THEN 100 ELSE 0)
\* sum(list)
RECURSIVE SumSeq(_)
SumSeq(list) == IF list = <<>> THEN 0 ELSE Head(list) + SumSeq(Tail(list))
\* numerator / divisor
Quotient(num, den) == [num |-> num, den |-> den]
\* Row of nnuc+1 per-component values, each the quotient of its sum by den.
Row(num, den, width) == [num |-> num, den |-> den, width |-> width]

\* --------------------------------------------------------------- Init
\* Everything but the configuration: the directory found at start, nothing computed yet.
InitRun ==
    /\ pc = "guard"
    /\ dirExists \in BOOLEAN
    /\ files \in (IF dirExists THEN InitialDirs ELSE {EmptyDir})
    /\ written = [f \in FileNames |-> 0]
    /\ extSaves = 0
    /\ console = <<>>
    /\ logger = "unopened"
    /\ N = 0 /\ nnuc = 0 /\ Num_test = 0 /\ Num_train = 0 /\ num_epochs = 0
    /\ optimizer = "none"
    /\ params = 0
    /\ paramGrad = {}
    /\ epoch = 0 /\ it = 0 /\ batch_idx = -1
    /\ prediction = NoPrediction
    /\ data_grad = NoGrad
    /\ dXdt = <<>>
    /\ n = 0
    /\ backwards = 0
    /\ loss = 0
    /\ losses = <<>> /\ plotting_losses = <<>> /\ diff_losses = <<>>
    /\ component_loss = 0 /\ d_component_loss = 0
    /\ cost_per_epoc = <<>>
    /\ component_losses_test = <<>>
    /\ component_losses_train = <<>>
    /\ d_component_losses_test = <<>>
    /\ d_component_losses_train = <<>>
    /\ cost_per_epoc_test = <<>>
    /\ different_loss_metrics = <<>>

\* The configuration of the source, with each of the three flags the script branches
\* on set either way.
Init ==
    /\ DEBUG_MODE \in BOOLEAN
    /\ DO_PLOTTING \in BOOLEAN
    /\ DO_HYPER_OPTIMIZATION \in BOOLEAN
    /\ percent_test = PercentTest
    /\ InitRun

\* The split for every test percentage: a debug run with evaluation and the
\* hyperparameter search enabled, percent_test anywhere strictly between 0 and 100.
SplitInit ==
    /\ DEBUG_MODE = TRUE
    /\ DO_PLOTTING = TRUE
    /\ DO_HYPER_OPTIMIZATION = TRUE
    /\ percent_test \in 1..99
    /\ InitRun

trainVars == <<modelVars, iterVars, batchVars, accVars, histVars>>

\* Variant: the Logger installed before the guard, so the guard's messages reach log.txt.
RunGuardLogged ==
    /\ pc = "guard"
    /\ IF dirExists /\ Listdir(files) # {}
       THEN /\ console' = console \o <<"Directory exists and is not empty.",
                                       "Please change output_dir or remove the directory">>
            /\ files' = LoggerWriteAll(files, <<"Directory exists and is not empty.",
                                                "Please change output_dir or remove the directory">>)
            /\ pc' = "exit_guard"
       ELSE /\ console' = console
            /\ files' = files
            /\ pc' = "mkdir"
    /\ UNCHANGED <<cfgVars, dirExists, written, extSaves, logger, dataVars, trainVars>>

\* ---------------------------------------------------------- run guard
\* if os.path.isdir(output_dir) and len(os.listdir(output_dir)) != 0: print, print, sys.exit()
\* The two messages go to the plain sys.stdout: the Logger is installed later.
RunGuard ==
    /\ pc = "guard"
    /\ IF dirExists /\ Listdir(files) # {}
       THEN /\ console' = console \o <<"Directory exists and is not empty.",
                                       "Please change output_dir or remove the directory">>
            /\ pc' = "exit_guard"
       ELSE /\ console' = console
            /\ pc' = "mkdir"
    /\ UNCHANGED <<cfgVars, fsVars, logger, dataVars, trainVars>>

\* isdir = os.path.isdir(output_dir); if not isdir: os.mkdir(output_dir)
MakeDir ==
    /\ pc = "mkdir"
    /\ dirExists' = TRUE
    /\ pc' = "logger"
    /\ UNCHANGED <<cfgVars, files, written, extSaves, logVars, dataVars, trainVars>>

\* sys.stdout = Logger(): open(log_file, "a") creates the file or keeps what it holds.
InstallLogger ==
    /\ pc = "logger"
    /\ files' = [files EXCEPT ![log_file] = File(@.data)]
    /\ written' = Touch(written, log_file)
    /\ logger' = "open"
    /\ pc' = "banner"
    /\ UNCHANGED <<cfgVars, dirExists, extSaves, console, dataVars, trainVars>>

\* The seven start-up prints.
Banner ==
    /\ pc = "banner"
    /\ PrintLines(<<"Model starting on", "input_prefix", "output_prefix", "output_dir",
                    "DEBUG_MODE", "DO_PLOTTING", "DO_HYPER_OPTIMIZATION">>)
    /\ pc' = "load"
    /\ UNCHANGED <<cfgVars, dirExists, extSaves, logger, dataVars, trainVars>>

\* react_data = ReactDataset2(...); nnuc = int(react_data.output_data.shape[1]/2 - 1)
LoadData ==
    /\ pc = "load"
    /\ \E size \in DatasetSizes, width \in OutputWidths :
          /\ N' = size
          /\ nnuc' = NnucOf(width)
    /\ pc' = "split"
    /\ UNCHANGED <<cfgVars, fsVars, logVars, percent_test, Num_test, Num_train, num_epochs, optimizer,
                   trainVars>>

\* Num_test, Num_train, random_split, the two DataLoaders
Split ==
    /\ pc = "split"
    /\ Num_test' = NumTestOf(N, percent_test)
    /\ Num_train' = NumTrainOf(N, percent_test)
    /\ pc' = "epochs"
    /\ UNCHANGED <<cfgVars, fsVars, logVars, percent_test, N, nnuc, num_epochs, optimizer, trainVars>>

\* DataLoader(dataset=test_set, shuffle=True) over an empty subset: the torch releases
\* whose RandomSampler checks num_samples > 0 raise ValueError here, the others build a
\* loader that yields no batch (Split above).  Both outcomes are kept.  The traceback
\* goes to stderr, which the Logger does not wrap.
SplitRaises ==
    /\ pc = "split"
    /\ NumTestOf(N, percent_test) = 0
    /\ Num_test' = NumTestOf(N, percent_test)
    /\ Num_train' = NumTrainOf(N, percent_test)
    /\ pc' = "exit_error"
    /\ UNCHANGED <<cfgVars, fsVars, logVars, percent_test, N, nnuc, num_epochs, optimizer, trainVars>>

\* if DEBUG_MODE: num_epochs = 3 else: num_epochs = 100
SetEpochs ==
    /\ pc = "epochs"
    /\ num_epochs' = NumEpochsOf(DEBUG_MODE)
    /\ pc' = "model"
    /\ UNCHANGED <<cfgVars, fsVars, logVars, percent_test, N, nnuc, Num_test, Num_train, optimizer,
                   trainVars>>

\* Model and optimizer: Adam by default, or the one the hyperparameter search names.
BuildModel ==
    /\ pc = "model"
    /\ \E name \in (IF DO_HYPER_OPTIMIZATION THEN OPTIMIZERS ELSE {"Adam"}) :
          optimizer' = name
    /\ pc' = "epoch_top"
    /\ UNCHANGED <<cfgVars, fsVars, logVars, percent_test, N, nnuc, Num_test, Num_train, num_epochs,
                   trainVars>>

\* else: print("unsupported optimizer, please define it."); sys.exit()
UnsupportedOptimizer ==
    /\ pc = "model"
    /\ DO_HYPER_OPTIMIZATION
    /\ \E name \in HyperOptimizerNames \ OPTIMIZERS : optimizer' = name
    /\ PrintLines(<<"unsupported optimizer, please define it.">>)
    /\ pc' = "exit_optimizer"
    /\ UNCHANGED <<cfgVars, dirExists, extSaves, logger, percent_test, N, nnuc, Num_test, Num_train,
                   num_epochs, trainVars>>


\* ------------------------------------------------------ differentiator
\* dXdt = torch.zeros_like(prediction): one column per output channel.
\* (prediction has output_data.shape[1]//2 = nnuc+1 columns.)
ZerosLike(width) == [i \in 1..width |-> [writes |-> 0, g |-> {}]]

\* if data.grad is not None: data.grad.data.zero_()
ZeroIfPresent(grad) == IF grad.none THEN grad ELSE [grad EXCEPT !.g = {}, !.loss = FALSE]

\* prediction[:, n].backward(ones, retain_graph=True): accumulates into data.grad.
BackwardChannel(grad, ch) == [none |-> FALSE, g |-> grad.g \cup {ch}, loss |-> grad.loss]

\* dXdt[:, n] = data.grad.clone()[:, 0]
WriteColumn(d, ch, grad) == [d EXCEPT ![ch + 1] = [writes |-> @.writes + 1, g |-> grad.g]]

\* Variant: the zeroing that ends the channel loop's body left out.
ZeroGradDataNoop(grad) == grad

\* data.grad.data.zero_()
ZeroGradData(grad) == [grad EXCEPT !.g = {}, !.loss = FALSE]

\* optimizer.zero_grad(): the parameters' gradients are cleared.
ZeroGrad(pg) == {}

\* loss.backward(): accumulates the loss's gradient into the parameters' .grad.
LossBackward(pg) == pg \cup {"loss"}

\* The conditional zeroing at the top of the channel loop's body.
DiffZero(here, next) ==
    /\ pc = here
    /\ data_grad' = ZeroIfPresent(data_grad)
    /\ pc' = next
    /\ UNCHANGED <<cfgVars, fsVars, logVars, dataVars, modelVars, iterVars,
                   prediction, dXdt, n, backwards, loss, accVars, histVars>>

\* backward of channel n, the copy into dXdt[:, n], the zeroing, and the loop's step.
DiffBackward(here, again, after, tag) ==
    /\ pc = here
    /\ LET grad == BackwardChannel(data_grad, n) IN
          /\ dXdt' = WriteColumn(dXdt, n, grad)
          /\ data_grad' = ZeroGradData(grad)
    /\ paramGrad' = paramGrad \cup {tag}
    /\ backwards' = backwards + 1
    /\ n' = n + 1
    /\ pc' = IF n + 1 < nnuc + 1 THEN again ELSE after
    /\ UNCHANGED <<cfgVars, fsVars, logVars, dataVars, params, iterVars,
                   prediction, loss, accVars, histVars>>

\* ---------------------------------------------------------- epoch loop
\* for epoch in range(num_epochs): losses = []; plotting_losses = []; diff_losses = []
EpochBegin ==
    /\ pc = "epoch_top"
    /\ epoch < num_epochs
    /\ losses' = <<>> /\ plotting_losses' = <<>> /\ diff_losses' = <<>>
    /\ it' = 0
    /\ pc' = "train_top"
    /\ UNCHANGED <<cfgVars, fsVars, logVars, dataVars, modelVars, epoch, batch_idx,
                   batchVars, component_loss, d_component_loss, histVars>>

\* Next training batch: data.requires_grad = True; prediction = model(data); dXdt = zeros
TrainForward ==
    /\ pc = "train_top"
    /\ it < NumBatches(Num_train)
    /\ batch_idx' = it
    /\ it' = it + 1
    /\ prediction' = [loop |-> "train", epoch |-> epoch, batch |-> it, params |-> params]
    /\ data_grad' = NoGrad
    /\ dXdt' = ZerosLike(nnuc + 1)
    /\ n' = 0
    /\ backwards' = 0
    /\ pc' = "train_diff_zero"
    /\ UNCHANGED <<cfgVars, fsVars, logVars, dataVars, modelVars, epoch, loss, accVars,
                   histVars>>

TrainDiffZero == DiffZero("train_diff_zero", "train_diff_back")

TrainDiffBackward ==
    DiffBackward("train_diff_back", "train_diff_zero", "train_criterion", "diff_train")

\* loss, array_loss = criterion(...); losses.append(loss.item()); diff_losses.append(array_loss)
TrainCriterion ==
    /\ pc = "train_criterion"
    /\ loss' = LossValue("criterion", prediction)
    /\ losses' = Append(losses, LossValue("criterion", prediction))
    /\ diff_losses' = Append(diff_losses, LossValue("array_loss", prediction))
    /\ pc' = "train_zero_grad"
    /\ UNCHANGED <<cfgVars, fsVars, logVars, dataVars, modelVars, iterVars,
                   prediction, data_grad, dXdt, n, backwards,
                   plotting_losses, component_loss, d_component_loss, histVars>>

\* optimizer.zero_grad()
TrainZeroGrad ==
    /\ pc = "train_zero_grad"
    /\ paramGrad' = ZeroGrad(paramGrad)
    /\ pc' = "train_backward"
    /\ UNCHANGED <<cfgVars, fsVars, logVars, dataVars, params, iterVars, batchVars,
                   accVars, histVars>>

\* loss.backward()
TrainBackward ==
    /\ pc = "train_backward"
    /\ paramGrad' = LossBackward(paramGrad)
    /\ data_grad' = [data_grad EXCEPT !.none = FALSE, !.loss = TRUE]
    /\ pc' = "train_step"
    /\ UNCHANGED <<cfgVars, fsVars, logVars, dataVars, params, iterVars,
                   prediction, dXdt, n, backwards, loss, accVars, histVars>>

\* optimizer.step()
TrainStep ==
    /\ pc = "train_step"
    /\ params' = params + 1
    /\ pc' = "train_accum"
    /\ UNCHANGED <<cfgVars, fsVars, logVars, dataVars, paramGrad, iterVars, batchVars,
                   accVars, histVars>>

\* Variant: the accumulator is never reset at the first batch of a loop.
AccumulateNoReset(sum, term) == sum + term

\* if batch_idx == 0: component_loss = loss_c else: component_loss = component_loss + loss_c
Accumulate(sum, term) == IF batch_idx = 0 THEN term ELSE sum + term

\* PLOTTING TERMS of a training batch
TrainAccumulate ==
    /\ pc = "train_accum"
    /\ plotting_losses' = Append(plotting_losses, LossValue("criterion_plotting", prediction))
    /\ component_loss' = Accumulate(component_loss, LossValue("component_loss_f", prediction))
    /\ d_component_loss' = Accumulate(d_component_loss, LossValue("component_loss_f_L1", prediction))
    /\ pc' = "train_top"
    /\ UNCHANGED <<cfgVars, fsVars, logVars, dataVars, modelVars, iterVars, batchVars,
                   losses, diff_losses, histVars>>

\* After the training batches: the epoch's print and the four appends.
TrainStats ==
    /\ pc = "train_top"
    /\ it = NumBatches(Num_train)
    /\ PrintLines(<<"Cost at epoch">>)
    /\ cost_per_epoc' = Append(cost_per_epoc, Quotient(SumSeq(plotting_losses), Len(plotting_losses)))
    /\ component_losses_train' =
          Append(component_losses_train, Row(component_loss, batch_idx, nnuc + 1))
    /\ d_component_losses_train' =
          Append(d_component_losses_train, Row(d_component_loss, batch_idx, nnuc + 1))
    /\ different_loss_metrics' =
          Append(different_loss_metrics, Quotient(SumSeq(diff_losses), Len(losses)))
    /\ IF DO_PLOTTING
       THEN /\ it' = 0
            /\ epoch' = epoch
            /\ pc' = "test_top"
       ELSE /\ it' = it
            /\ epoch' = epoch + 1
            /\ pc' = "epoch_top"
    /\ UNCHANGED <<cfgVars, dirExists, extSaves, logger, dataVars, modelVars, batch_idx,
                   batchVars, accVars, component_losses_test, d_component_losses_test,
                   cost_per_epoc_test>>

\* Next test batch: forward, loss = criterion_plotting(...); losses.append(loss.item())
TestForward ==
    /\ pc = "test_top"
    /\ it < NumBatches(Num_test)
    /\ batch_idx' = it
    /\ it' = it + 1
    /\ LET pred == [loop |-> "test", epoch |-> epoch, batch |-> it, params |-> params] IN
          /\ prediction' = pred
          /\ loss' = LossValue("criterion_plotting", pred)
          /\ losses' = Append(losses, LossValue("criterion_plotting", pred))
    /\ data_grad' = NoGrad
    /\ dXdt' = ZerosLike(nnuc + 1)
    /\ n' = 0
    /\ backwards' = 0
    /\ pc' = "test_diff_zero"
    /\ UNCHANGED <<cfgVars, fsVars, logVars, dataVars, modelVars, epoch,
                   plotting_losses, diff_losses, component_loss, d_component_loss, histVars>>

TestDiffZero == DiffZero("test_diff_zero", "test_diff_back")

TestDiffBackward ==
    DiffBackward("test_diff_back", "test_diff_zero", "test_accum", "diff_test")

\* Component and derivative component loss of a test batch
TestAccumulate ==
    /\ pc = "test_accum"
    /\ component_loss' = Accumulate(component_loss, LossValue("component_loss_f", prediction))
    /\ d_component_loss' = Accumulate(d_component_loss, LossValue("component_loss_f_L1", prediction))
    /\ pc' = "test_top"
    /\ UNCHANGED <<cfgVars, fsVars, logVars, dataVars, modelVars, iterVars, batchVars,
                   losses, plotting_losses, diff_losses, histVars>>

\* After the test batches: the three test appends, then the next epoch.
TestStats ==
    /\ pc = "test_top"
    /\ it = NumBatches(Num_test)
    /\ cost_per_epoc_test' = Append(cost_per_epoc_test, Quotient(SumSeq(losses), Len(losses)))
    /\ component_losses_test' =
          Append(component_losses_test, Row(component_loss, batch_idx, nnuc + 1))
    /\ d_component_losses_test' =
          Append(d_component_losses_test, Row(d_component_loss, batch_idx, nnuc + 1))
    /\ epoch' = epoch + 1
    /\ pc' = "epoch_top"
    /\ UNCHANGED <<cfgVars, fsVars, logVars, dataVars, modelVars, it, batch_idx, batchVars,
                   accVars, cost_per_epoc, component_losses_train, d_component_losses_train,
                   different_loss_metrics>>


\* --------------------------------------------------------- persistence
\* Variant: rows whose divisor is 0 (inf/nan values) dropped when the array is built.
NpArrayFinite(list) == SelectSeq(list, LAMBDA r : r.den # 0)

\* np.array(list): the rows stacked in order; the entries are not changed.
NpArray(list) == [i \in 1..Len(list) |-> list[i]]

\* Leaving the epoch loop: the five lists become arrays.
ConvertArrays ==
    /\ pc = "epoch_top"
    /\ epoch = num_epochs
    /\ component_losses_train' = NpArray(component_losses_train)
    /\ component_losses_test' = NpArray(component_losses_test)
    /\ d_component_losses_train' = NpArray(d_component_losses_train)
    /\ d_component_losses_test' = NpArray(d_component_losses_test)
    /\ different_loss_metrics' = NpArray(different_loss_metrics)
    /\ pc' = "save"
    /\ UNCHANGED <<cfgVars, fsVars, logVars, dataVars, modelVars, iterVars, batchVars,
                   accVars, cost_per_epoc, cost_per_epoc_test>>

\* Variant: no backup, the new checkpoint is written over the old one.
BackupNever(fs) == fs

\* if os.path.exists(file_name): os.rename(file_name, file_name+'.backup')
\* (os.rename replaces an existing destination file.)
BackupExisting(fs) ==
    IF fs[file_name].exists
    THEN [fs EXCEPT ![backup_name] = fs[file_name], ![file_name] = NoFile]
    ELSE fs

\* torch.save(model.state_dict(), file_name)
TorchSave(fs, weights) == [fs EXCEPT ![file_name] = File(<<weights>>)]

\* np.savetxt(path, array)
SaveTxt(fs, f, array) == [fs EXCEPT ![f] = File(array)]

\* A persistence of another process against the same checkpoint path (the same
\* rename-then-write), before this run's own persistence starts.  Nothing in the
\* script reads output_dir between the run guard and the persistence block, so the
\* moment of such a write does not matter and it is placed right before the block.
ExternalSave ==
    /\ pc = "save"
    /\ dirExists
    /\ extSaves < MaxExternalSaves
    /\ extSaves' = extSaves + 1
    /\ files' = TorchSave(BackupExisting(files), [owner |-> "other", version |-> extSaves + 1])
    /\ UNCHANGED <<pc, cfgVars, dirExists, written, logVars, dataVars, trainVars>>

\* if SAVE_MODEL: print("Saving...")
SaveBegin ==
    /\ pc = "save"
    /\ IF SAVE_MODEL
       THEN /\ PrintLines(<<"Saving...">>)
            /\ pc' = "save_backup"
       ELSE /\ UNCHANGED <<console, files, written>>
            /\ pc' = "plot"
    /\ UNCHANGED <<cfgVars, dirExists, extSaves, logger, dataVars, trainVars>>

\* The existing checkpoint, if any, is announced and renamed.
SaveBackup ==
    /\ pc = "save_backup"
    /\ IF files[file_name].exists
       THEN /\ console' = Append(console, "Overwritting file:")
            /\ files' = BackupExisting(LoggerWrite(files, "Overwritting file:"))
            /\ written' = Touch(Touch(written, log_file), backup_name)
       ELSE UNCHANGED <<console, files, written>>
    /\ pc' = "save_model"
    /\ UNCHANGED <<cfgVars, dirExists, extSaves, logger, dataVars, trainVars>>

\* torch.save(model.state_dict(), file_name)
SaveModel ==
    /\ pc = "save_model"
    /\ files' = TorchSave(files, [owner |-> "driver", version |-> params])
    /\ written' = Touch(written, file_name)
    /\ pc' = "save_metrics"
    /\ UNCHANGED <<cfgVars, dirExists, extSaves, logVars, dataVars, trainVars>>

\* The five np.savetxt calls.
SaveMetrics ==
    /\ pc = "save_metrics"
    /\ files' =
          SaveTxt(SaveTxt(SaveTxt(SaveTxt(SaveTxt(files,
              "cost_per_epoch.txt", cost_per_epoc),
              "component_losses_test.txt", component_losses_test),
              "component_losses_train.txt", component_losses_train),
              "d_component_losses_test.txt", d_component_losses_test),
              "d_component_losses_train.txt", d_component_losses_train)
    /\ written' = [f \in FileNames |-> IF f \in MetricFiles THEN written[f] + 1 ELSE written[f]]
    /\ pc' = "plot"
    /\ UNCHANGED <<cfgVars, dirExists, extSaves, logVars, dataVars, trainVars>>

\* if DO_PLOTTING: print("Plotting..."); plotting_pinn(...).do_all_plots()
Plotting ==
    /\ pc = "plot"
    /\ IF DO_PLOTTING
       THEN PrintLines(<<"Plotting...">>)
       ELSE UNCHANGED <<console, files, written>>
    /\ pc' = "finish"
    /\ UNCHANGED <<cfgVars, dirExists, extSaves, logger, dataVars, trainVars>>

\* print("Success! :) \n"); sys.stdout.log.close()
Finish ==
    /\ pc = "finish"
    /\ PrintLines(<<"Success! :) ">>)
    /\ logger' = "closed"
    /\ pc' = "done"
    /\ UNCHANGED <<cfgVars, dirExists, extSaves, dataVars, trainVars>>

\* ---------------------------------------------------------------- Spec
Next ==
    \/ RunGuard
    \/ MakeDir
    \/ InstallLogger
    \/ Banner
    \/ LoadData
    \/ Split
    \/ SplitRaises
    \/ SetEpochs
    \/ BuildModel
    \/ UnsupportedOptimizer
    \/ EpochBegin
    \/ TrainForward
    \/ TrainDiffZero
    \/ TrainDiffBackward
    \/ TrainCriterion
    \/ TrainZeroGrad
    \/ TrainBackward
    \/ TrainStep
    \/ TrainAccumulate
    \/ TrainStats
    \/ TestForward
    \/ TestDiffZero
    \/ TestDiffBackward
    \/ TestAccumulate
    \/ TestStats
    \/ ConvertArrays
    \/ ExternalSave
    \/ SaveBegin
    \/ SaveBackup
    \/ SaveModel
    \/ SaveMetrics
    \/ Plotting
    \/ Finish

Spec == Init /\ [][Next]_vars

SplitSpec == SplitInit /\ [][Next]_vars


\* ============================================================ properties
TrainB == NumBatches(Num_train)
TestB == NumBatches(Num_test)
StartupPcs == {"guard", "exit_guard", "mkdir", "logger", "banner", "load"}
TrainPcs == {"train_top", "train_diff_zero", "train_diff_back", "train_criterion",
             "train_zero_grad", "train_backward", "train_step", "train_accum"}
TestPcs == {"test_top", "test_diff_zero", "test_diff_back", "test_accum"}
FinalizePcs == {"save", "save_backup", "save_model", "save_metrics", "plot", "finish", "done"}
Untouched == \A f \in FileNames : written[f] = 0

\* ------------------------------------------------------------------ C1
\* C1: started on an output_dir that exists and holds at least one entry, the driver
\* goes from the guard straight to its exit, with every file of output_dir as it was,
\* the log file unopened, no data loaded and nothing trained, and it takes no further
\* step; started on a missing or empty output_dir it proceeds, and the directory
\* exists from then on.
C1_GuardStep ==
    pc = "guard" =>
       IF dirExists /\ Listdir(files) # {}
       THEN /\ pc' = "exit_guard"
            /\ files' = files /\ dirExists' = dirExists /\ written' = written
            /\ logger' = "unopened"
       ELSE pc' = "mkdir"
C1_GuardState ==
    /\ pc = "exit_guard" =>
          /\ dirExists /\ Listdir(files) # {}
          /\ Untouched
          /\ logger = "unopened"
          /\ \A f \in FileNames : files[f].exists => files[f] = LeftOver(f)
          /\ N = 0 /\ params = 0 /\ epoch = 0 /\ cost_per_epoc = <<>>
          /\ ~ENABLED Next
    /\ pc \notin {"guard", "exit_guard", "mkdir"} => dirExists
C1_RunGuard == [][C1_GuardStep]_vars /\ []C1_GuardState

C1_Witness ==
    /\ pc = "exit_guard"
    /\ files[log_file] = LeftOver(log_file)
    /\ Len(console) = 2

\* ------------------------------------------------------------------ C2
\* C2: a step that replaces or removes an existing checkpoint leaves that
\* checkpoint's content at the .backup path; and once persistence has run twice
\* against the path (once from outside, once by this run), the .backup file holds
\* the first persistence's weights and the primary path the second's.
C2_NoDestructiveStep ==
    (files[file_name].exists /\ files'[file_name] # files[file_name])
        => files'[backup_name] = files[file_name]
C2_TwiceState ==
    (pc \in {"save_metrics", "plot", "finish", "done"} /\ extSaves = 1) =>
        /\ files[backup_name] = File(<<[owner |-> "other", version |-> 1]>>)
        /\ files[file_name] = File(<<[owner |-> "driver", version |-> params]>>)
C2_CheckpointBackup == [][C2_NoDestructiveStep]_vars /\ []C2_TwiceState

C2_Witness ==
    /\ pc = "done"
    /\ extSaves = 1
    /\ files[backup_name].exists
    /\ files[file_name].data[1].owner = "driver"

\* ------------------------------------------------------------------ C3
\* C3: for every N >= 1 and every percent_test in 1..99, once the split is computed
\* Num_test is the floor of N*percent_test/100, Num_test + Num_train = N, neither is
\* negative, and no later step (no epoch) changes either.
C3_Sizes ==
    pc \notin StartupPcs \cup {"split"} =>
        /\ N >= 1 /\ percent_test \in 1..99
        /\ Num_test + Num_train = N
        /\ Num_test >= 0 /\ Num_train >= 0
        /\ 100 * Num_test <= N * percent_test
        /\ N * percent_test < 100 * (Num_test + 1)
C3_Frozen ==
    pc \notin StartupPcs \cup {"split"} => (Num_test' = Num_test /\ Num_train' = Num_train)
C3_SplitSizes == []C3_Sizes /\ [][C3_Frozen]_vars

C3_Witness ==
    /\ pc = "train_top"
    /\ epoch = 2
    /\ N = 19
    /\ percent_test = 37
    /\ Num_test = 7 /\ Num_train = 12

\* ------------------------------------------------------------------ C4
\* C4: the metric histories have one entry per completed epoch (the train histories
\* one more while the epoch's test loop runs; the test histories as many as the
\* epochs completed when evaluation is enabled), every row has nnuc+1 values, and no
\* step changes or removes an entry once appended.
IsPrefix(a, b) == Len(a) <= Len(b) /\ \A i \in 1..Len(a) : b[i] = a[i]
TrainHistLen == IF pc \in TestPcs THEN epoch + 1 ELSE epoch
C4_Lengths ==
    /\ Len(cost_per_epoc) = TrainHistLen
    /\ Len(component_losses_train) = TrainHistLen
    /\ Len(d_component_losses_train) = TrainHistLen
    /\ DO_PLOTTING =>
          /\ Len(component_losses_test) = epoch
          /\ Len(d_component_losses_test) = epoch
    /\ \A i \in 1..Len(component_losses_train) :
          /\ component_losses_train[i].width = nnuc + 1
          /\ d_component_losses_train[i].width = nnuc + 1
    /\ pc \in FinalizePcs => epoch = num_epochs
C4_AppendOnly ==
    /\ IsPrefix(cost_per_epoc, cost_per_epoc')
    /\ IsPrefix(component_losses_train, component_losses_train')
    /\ IsPrefix(d_component_losses_train, d_component_losses_train')
    /\ IsPrefix(component_losses_test, component_losses_test')
    /\ IsPrefix(d_component_losses_test, d_component_losses_test')
C4_Histories == []C4_Lengths /\ [][C4_AppendOnly]_vars

C4_Witness ==
    /\ pc = "epoch_top"
    /\ epoch = 1
    /\ DO_PLOTTING
    /\ Len(cost_per_epoc) = 1
    /\ Len(component_losses_test) = 1
    /\ component_losses_train[1].width = nnuc + 1

\* ------------------------------------------------------------------ C5
\* C5: num_epochs is 3 under DEBUG_MODE and 100 otherwise; batches run only in an
\* epoch whose index is below num_epochs; the persistence block is entered only from
\* the loop's exit after num_epochs epochs and is never re-entered; this run writes
\* the checkpoint and the five metric files only in that block, and when the run is
\* done it has written each exactly once.
SavedFiles == MetricFiles \cup {file_name}
C5_State ==
    /\ pc \notin StartupPcs \cup {"split", "epochs", "exit_error"} =>
          num_epochs = (IF DEBUG_MODE THEN 3 ELSE 100)
    /\ pc \in TrainPcs \cup TestPcs => epoch < num_epochs
    /\ pc \in FinalizePcs => /\ epoch = num_epochs
                             /\ params = num_epochs * TrainB
    /\ (\E f \in SavedFiles : written[f] > 0) => pc \in {"save_metrics", "plot", "finish", "done"}
    /\ pc \in {"plot", "finish", "done"} => \A f \in SavedFiles : written[f] = 1
C5_Step ==
    /\ (pc' = "save" /\ pc # "save") => (pc = "epoch_top" /\ epoch = num_epochs)
    /\ pc \in FinalizePcs => pc' \in FinalizePcs \ (IF pc = "save" THEN {} ELSE {"save"})
    /\ (\E f \in SavedFiles : written'[f] # written[f]) => pc \in {"save_model", "save_metrics"}
C5_LoopThenFinalize == []C5_State /\ [][C5_Step]_vars

C5_Witness ==
    /\ pc = "done"
    /\ ~DEBUG_MODE
    /\ epoch = 100
    /\ \A f \in SavedFiles : written[f] = 1


\* ------------------------------------------------------------------ C6
\* C6: only optimizer.step() changes the parameters, by one version per training
\* batch; the step comes after that batch's forward pass, its nnuc+1 differentiator
\* passes, the composed loss, zero_grad and the loss's backward, and before the next
\* forward pass; the test loop neither steps nor clears, so the parameters during and
\* after it are those left by the epoch's training batches; and the gradients the
\* differentiator passes (of the test loop included) leave on the parameters are
\* cleared before each training backward, so that a step consumes the loss's
\* gradient alone.
C6_State ==
    /\ pc \in {"train_diff_zero", "train_diff_back", "train_criterion", "train_zero_grad",
               "train_backward", "train_step"} =>
          /\ params = epoch * TrainB + it - 1
          /\ prediction = [loop |-> "train", epoch |-> epoch, batch |-> it - 1, params |-> params]
    /\ pc \in {"train_accum", "train_top"} => params = epoch * TrainB + it
    /\ pc \in TestPcs => params = (epoch + 1) * TrainB
    /\ pc = "epoch_top" => params = epoch * TrainB
    /\ pc \in {"train_zero_grad", "train_backward", "train_step"} =>
          /\ backwards = nnuc + 1
          /\ loss = LossValue("criterion", prediction)
    /\ pc = "train_backward" => paramGrad = {}
    /\ pc = "train_step" => paramGrad = {"loss"}
    /\ (pc \in TestPcs /\ it >= 1 /\ pc # "test_diff_zero" /\ pc # "test_diff_back") =>
          "diff_test" \in paramGrad
C6_Step ==
    /\ params' # params => (pc = "train_step" /\ params' = params + 1)
    /\ (paramGrad # {} /\ paramGrad' = {}) => pc = "train_zero_grad"
    /\ pc \in TestPcs => params' = params
C6_ParametersOnlyByStep == []C6_State /\ [][C6_Step]_vars

C6_Witness ==
    /\ pc = "train_backward"
    /\ epoch = 1
    /\ it = 1
    /\ DO_PLOTTING
    /\ Num_test > 0
    /\ paramGrad = {}
    /\ params = TrainB

\* ------------------------------------------------------------------ C7
\* C7 as claimed: every line on the console is also a line of log.txt.
C7_EveryConsoleLineLogged ==
    \A i \in 1..Len(console) :
        \E j \in 1..Len(files[log_file].data) : files[log_file].data[j] = console[i]

\* C7 as amended: the lines printed once the Logger is installed are appended to
\* log.txt in order, the unsupported-optimizer message included; before that only the
\* run guard prints, to the console alone, and on that path log.txt is never opened;
\* opening the log keeps what the file held; the log is closed only by the last step,
\* after the last console line.
C7_State ==
    /\ logger = "unopened" =>
          /\ pc \in {"guard", "exit_guard", "mkdir", "logger"}
          /\ console # <<>> => pc = "exit_guard"
          /\ written[log_file] = 0
    /\ logger # "unopened" =>
          /\ files[log_file].exists
          /\ files[log_file].data = console
    /\ pc = "exit_optimizer" =>
          /\ logger = "open"
          /\ console[Len(console)] = "unsupported optimizer, please define it."
    /\ logger = "closed" <=> pc = "done"
C7_Step ==
    /\ logger = "closed" => console' = console
    /\ (logger = "unopened" /\ logger' = "open") => files'[log_file].data = files[log_file].data
C7_TeeAfterInstall == []C7_State /\ [][C7_Step]_vars

C7_Witness ==
    /\ pc = "exit_optimizer"
    /\ files[log_file].data = console
    /\ Len(console) = 8


\* ------------------------------------------------------------------ C8
\* The sum of the values a loss function takes on the batches 0..batches-1 of a loop,
\* the first on parameters p0, each next one on pstep versions later.
RECURSIVE BatchSum(_, _, _, _, _, _)
BatchSum(f, lp, e, batches, p0, pstep) ==
    IF batches = 0 THEN 0
    ELSE BatchSum(f, lp, e, batches - 1, p0, pstep)
         + LossValue(f, [loop |-> lp, epoch |-> e, batch |-> batches - 1,
                         params |-> p0 + pstep * (batches - 1)])

\* C8: the entry of epoch e in component_losses_train (d_component_losses_train) is
\* the sum of the component losses of that epoch's B training batches, and of nothing
\* else, over the divisor B-1 (0 when B = 1); when the test loader yields B' >= 1
\* batches, the test entries are the sum over that epoch's B' test batches over B'-1.
LastOf(h) == h[Len(h)]
C8_Newest ==
    /\ component_losses_train # <<>> =>
          LastOf(component_losses_train) =
              Row(BatchSum("component_loss_f", "train", Len(component_losses_train) - 1,
                           TrainB, (Len(component_losses_train) - 1) * TrainB, 1),
                  TrainB - 1, nnuc + 1)
    /\ d_component_losses_train # <<>> =>
          LastOf(d_component_losses_train) =
              Row(BatchSum("component_loss_f_L1", "train", Len(d_component_losses_train) - 1,
                           TrainB, (Len(d_component_losses_train) - 1) * TrainB, 1),
                  TrainB - 1, nnuc + 1)
    /\ (TestB >= 1 /\ component_losses_test # <<>>) =>
          LastOf(component_losses_test) =
              Row(BatchSum("component_loss_f", "test", Len(component_losses_test) - 1,
                           TestB, Len(component_losses_test) * TrainB, 0),
                  TestB - 1, nnuc + 1)
    /\ (TestB >= 1 /\ d_component_losses_test # <<>>) =>
          LastOf(d_component_losses_test) =
              Row(BatchSum("component_loss_f_L1", "test", Len(d_component_losses_test) - 1,
                           TestB, Len(d_component_losses_test) * TrainB, 0),
                  TestB - 1, nnuc + 1)
\* Every entry is the newest one when it is appended, and is kept as it is afterwards.
C8_Kept ==
    /\ IsPrefix(component_losses_train, component_losses_train')
    /\ IsPrefix(d_component_losses_train, d_component_losses_train')
    /\ IsPrefix(component_losses_test, component_losses_test')
    /\ IsPrefix(d_component_losses_test, d_component_losses_test')
    /\ Len(component_losses_train') <= Len(component_losses_train) + 1
    /\ Len(d_component_losses_train') <= Len(d_component_losses_train) + 1
    /\ Len(component_losses_test') <= Len(component_losses_test) + 1
    /\ Len(d_component_losses_test') <= Len(d_component_losses_test) + 1
C8_ComponentAveraging == []C8_Newest /\ [][C8_Kept]_vars

C8_Witness ==
    /\ pc = "epoch_top"
    /\ epoch = 2
    /\ DO_PLOTTING
    /\ TrainB = 10 /\ TestB = 2
    /\ component_losses_train[2].den = 9
    /\ component_losses_test[2].den = 1

\* ------------------------------------------------------------------ C9
\* C9: in both loops, when channel n's backward pass starts the input batch carries no
\* gradient or a zero one; the zeroing before it is skipped exactly when no gradient
\* exists yet, which is before channel 0 only; column n of dXdt is written once, with
\* the gradient of channel n alone; the input gradient is zero after each channel; and
\* nnuc+1 differentiator passes are made per forward pass.
DiffPcs == {"train_diff_zero", "train_diff_back", "test_diff_zero", "test_diff_back"}
AfterDiffPcs == {"train_criterion", "train_zero_grad", "train_backward", "train_step",
                 "train_accum", "test_accum"}
C9_State ==
    /\ pc \in {"train_diff_back", "test_diff_back"} =>
          /\ data_grad.g = {} /\ ~data_grad.loss
          /\ data_grad.none <=> n = 0
    /\ pc \in {"train_diff_zero", "test_diff_zero"} =>
          /\ data_grad.none <=> n = 0
          /\ n > 0 => (data_grad.g = {} /\ ~data_grad.loss)
    /\ pc \in DiffPcs =>
          /\ n < nnuc + 1
          /\ backwards = n
    /\ pc \in AfterDiffPcs =>
          /\ n = nnuc + 1
          /\ backwards = nnuc + 1
    /\ pc \in DiffPcs \cup AfterDiffPcs =>
          /\ Len(dXdt) = nnuc + 1
          /\ \A i \in 1..Len(dXdt) :
                dXdt[i] = IF i <= n THEN [writes |-> 1, g |-> {i - 1}]
                                    ELSE [writes |-> 0, g |-> {}]
C9_Step ==
    pc \in {"train_diff_zero", "test_diff_zero"} =>
        IF data_grad.none THEN data_grad' = data_grad
        ELSE data_grad' = [none |-> FALSE, g |-> {}, loss |-> FALSE]
C9_Differentiator == []C9_State /\ [][C9_Step]_vars

C9_Witness ==
    /\ pc = "test_accum"
    /\ nnuc = 2
    /\ backwards = 3
    /\ dXdt[3] = [writes |-> 1, g |-> {2}]
    /\ data_grad = [none |-> FALSE, g |-> {}, loss |-> FALSE]

\* ----------------------------------------------------------------- C10
\* C10: an epoch's test entries are computed from that epoch's test batches alone.
\* Stated for the epochs whose test loader yields at least one batch: the entry of
\* cost_per_epoc_test is the mean of the plotting loss over the test batches, and the
\* component rows are the sums over the test batches over the last test batch index.
C10_TestEntriesFromTestBatches ==
    TestB >= 1 =>
        /\ \A i \in 1..Len(cost_per_epoc_test) :
              cost_per_epoc_test[i] =
                  Quotient(BatchSum("criterion_plotting", "test", i - 1, TestB, i * TrainB, 0),
                           TestB)
        /\ \A i \in 1..Len(component_losses_test) :
              /\ component_losses_test[i].num =
                    BatchSum("component_loss_f", "test", i - 1, TestB, i * TrainB, 0)
              /\ component_losses_test[i].den = TestB - 1
        /\ \A i \in 1..Len(d_component_losses_test) :
              /\ d_component_losses_test[i].num =
                    BatchSum("component_loss_f_L1", "test", i - 1, TestB, i * TrainB, 0)
              /\ d_component_losses_test[i].den = TestB - 1

====
